---- MODULE Spec2Model ----
(***************************************************************************)
(* Model of options_trading.ipynb: the notebook's cells run top to bottom  *)
(* against one brokerage account.  Cell 4 ("Risk management") reads the    *)
(* account configuration, sets max_options_trading_level and writes the    *)
(* configuration back; cell 7 ("Overwrite on TSLA") captures today's date, *)
(* derives the expiration window and computes the minimum strike from the  *)
(* last trade price with Python float arithmetic and round().              *)
(***************************************************************************)
EXTENDS Integers, Sequences, FiniteSets, TLC

(***************************************************************************)
(* Python floats (IEEE-754 binary64).  A float is sign, 53-bit mantissa    *)
(* and exponent: value = (-1)^neg * m * 2^e.  Mantissas and intermediate   *)
(* products are exact naturals held as little-endian limbs.                *)
(***************************************************************************)
LimbBits == 13
NumLimbs == 10
MantBits == 53

LimbBase == 2 ^ LimbBits
Limbs == 0 .. (NumLimbs - 1)
BigZero == [i \in Limbs |-> 0]

\* Limb i of a, 0 outside the representation.
LimbAt(a, i) == IF i \in Limbs THEN a[i] ELSE 0

\* A natural below 2^31 as limbs.
BigOfInt(n) ==
  [i \in Limbs |->
     IF i = 0 THEN n % LimbBase
     ELSE IF i = 1 THEN (n \div LimbBase) % LimbBase
     ELSE IF i = 2 THEN n \div (LimbBase * LimbBase)
     ELSE 0]

\* Limbs back to an integer (the value must fit).
IntOfBig(a) == a[0] + a[1] * LimbBase + a[2] * LimbBase * LimbBase

BitAt(a, i) ==
  IF i < 0 THEN 0 ELSE (LimbAt(a, i \div LimbBits) \div (2 ^ (i % LimbBits))) % 2

\* Number of significant bits.
BitLen(a) ==
  IF a = BigZero THEN 0
  ELSE LET t == CHOOSE u \in Limbs : a[u] # 0 /\ \A v \in Limbs : v > u => a[v] = 0
           k == CHOOSE j \in 1 .. LimbBits : 2 ^ (j - 1) <= a[t] /\ a[t] < 2 ^ j
       IN  t * LimbBits + k

\* Carry into limb i of a column vector c with entries possibly >= LimbBase.
RECURSIVE CarryInto(_, _)
CarryInto(c, i) ==
  IF i = 0 THEN 0 ELSE (c[i - 1] + CarryInto(c, i - 1)) \div LimbBase

Normalize(c) == [i \in Limbs |-> (c[i] + CarryInto(c, i)) % LimbBase]

RECURSIVE ColumnSum(_, _, _, _)
ColumnSum(a, b, k, i) ==
  IF i > k THEN 0 ELSE LimbAt(a, i) * LimbAt(b, k - i) + ColumnSum(a, b, k, i + 1)

\* Exact product of two mantissas (each below 2^65).
BigMul(a, b) == Normalize([k \in Limbs |-> ColumnSum(a, b, k, 0)])

BigMulSmall(a, n) == Normalize([i \in Limbs |-> a[i] * n])

BigInc(a) ==
  LET k == CHOOSE j \in Limbs : a[j] # LimbBase - 1 /\ \A i \in Limbs : i < j => a[i] = LimbBase - 1
  IN  [i \in Limbs |-> IF i < k THEN 0 ELSE IF i = k THEN a[i] + 1 ELSE a[i]]

ShiftLeft(a, s) ==
  LET q == s \div LimbBits
      t == s % LimbBits
  IN  [j \in Limbs |->
         (LimbAt(a, j - q) % (2 ^ (LimbBits - t))) * (2 ^ t)
         + (LimbAt(a, j - q - 1) \div (2 ^ (LimbBits - t)))]

ShiftRight(a, s) ==
  LET q == s \div LimbBits
      t == s % LimbBits
  IN  [j \in Limbs |->
         (LimbAt(a, j + q) \div (2 ^ t))
         + (LimbAt(a, j + q + 1) % (2 ^ t)) * (2 ^ (LimbBits - t))]

\* Some bit strictly below position s is set.
AnyBelow(a, s) ==
  \E i \in Limbs :
     \/ (i + 1) * LimbBits <= s /\ a[i] # 0
     \/ i * LimbBits < s /\ s < (i + 1) * LimbBits /\ a[i] % (2 ^ (s - i * LimbBits)) # 0

\* a / 2^s rounded to the nearest integer, ties to even; sticky says that
\* a itself was already truncated from something larger.
RoundShift(a, s, sticky) ==
  IF s <= 0 THEN a
  ELSE LET q == ShiftRight(a, s)
           up == /\ BitAt(a, s - 1) = 1
                 /\ (sticky \/ AnyBelow(a, s - 1) \/ q[0] % 2 = 1)
       IN  IF up THEN BigInc(q) ELSE q

\* Remainder carried into limb i by long division of a by the small d.
RECURSIVE RemAbove(_, _, _)
RemAbove(a, d, i) ==
  IF i >= NumLimbs THEN 0 ELSE (RemAbove(a, d, i + 1) * LimbBase + a[i]) % d

BigDivSmall(a, d) ==
  [i \in Limbs |-> (RemAbove(a, d, i + 1) * LimbBase + a[i]) \div d]

FloatZero(neg) == [neg |-> neg, m |-> BigZero, e |-> 0]

\* n * 2^e rounded to a float: 53 significant bits, nearest, ties to even.
FloatOfScaled(neg, n, e, sticky) ==
  IF n = BigZero THEN FloatZero(neg)
  ELSE LET L  == BitLen(n)
           s  == IF L > MantBits THEN L - MantBits ELSE 0
           m0 == RoundShift(n, s, sticky)
       IN  IF BitLen(m0) > MantBits
           THEN [neg |-> neg, m |-> ShiftRight(m0, 1), e |-> e + s + 1]
           ELSE [neg |-> neg, m |-> m0, e |-> e + s]

\* The float nearest to the decimal n / d (float("2.55"), the literal 1.02,
\* a JSON price): n, d small naturals, d > 0.
DivScale == 70
FloatOfRatio(neg, n, d) ==
  LET N == ShiftLeft(BigOfInt(n), DivScale)
  IN  FloatOfScaled(neg, BigDivSmall(N, d), 0 - DivScale, RemAbove(N, d, 0) # 0)

\* x * y, correctly rounded.
FloatMul(x, y) ==
  FloatOfScaled(x.neg # y.neg, BigMul(x.m, y.m), x.e + y.e, FALSE)

\* |x| * k rounded to the nearest integer on x's exact binary value, ties to
\* even: the digits a correctly rounded decimal conversion of x produces.
ScaleRound(x, k) ==
  LET N == BigMulSmall(x.m, k)
  IN  IntOfBig(IF x.e >= 0 THEN ShiftLeft(N, x.e) ELSE RoundShift(N, 0 - x.e, FALSE))

Pow10(k) == 10 ^ k

\* Python's round(x, ndigits) on a float: x is converted to the decimal with
\* ndigits fractional digits nearest to its exact binary value (ties to
\* even), and that decimal is converted back to the nearest float.
PyRound(x, ndigits) ==
  FloatOfRatio(x.neg, ScaleRound(x, Pow10(ndigits)), Pow10(ndigits))

\* str(x) for a float: the shortest decimal that converts back to x, with at
\* least one fractional digit ("255.0", "1.3", "1.27").  Floats needing more
\* than two fractional digits do not arise from round(x, 2).
PyStr(x) ==
  LET t == ScaleRound(x, 10)
      c == ScaleRound(x, 100)
  IN  IF FloatOfRatio(x.neg, t, 10) = x
      THEN [neg |-> x.neg, whole |-> t \div 10, frac |-> << t % 10 >>]
      ELSE [neg |-> x.neg, whole |-> c \div 100, frac |-> << (c % 100) \div 10, c % 10 >>]

\* The float literal 1.02 of line 165.
Margin == FloatOfRatio(FALSE, 102, 100)

\* ndigits of round() on line 165.
StrikeDigits == 2

\* min_strike = str(round(underlying_last_price * 1.02, 2))
MinStrike(last_price) == PyStr(PyRound(FloatMul(last_price, Margin), StrikeDigits))

\* The price field of the latest trade: the float nearest to the quoted
\* decimal price, given in cents.
TradePrice(cents) ==
  FloatOfRatio(cents < 0, IF cents < 0 THEN 0 - cents ELSE cents, 100)

(***************************************************************************)
(* The notebook as a state machine.  Each run is one top-to-bottom         *)
(* execution of the cells; the runs share the brokerage account and the    *)
(* wall clock and nothing else.                                            *)
(***************************************************************************)
Runs == {"run1", "run2"}

\* Inputs of the environment.
MaxLevel == 2
MaxDay == 1
None == 0 - 1
NoDate == 0 - 1
Levels == {None} \cup (0 .. MaxLevel)
Days == 0 .. MaxDay
\* Quoted last-trade prices, in cents.
Prices == {0 - 25, 0, 1, 125, 625, 1875, 25000}

Unset == [unset |-> TRUE]

\* timedelta(days=14) and timedelta(days=90), lines 156-157.
MinDays == 14
MaxDays == 90

VARIABLES
  account,                \* the account configuration held by the broker
  clock,                  \* the current date, as a day number
  pc,                     \* per run: the statement group to execute next
  acct_config,            \* per run: the configuration object of cell 4
  printed,                \* per run: the levels printed by cell 4
  calls,                  \* per run: the broker API calls made so far
  today,                  \* per run: line 155
  min_expiration,         \* per run: line 156
  max_expiration,         \* per run: line 157
  quoted,                 \* per run: the decimal price quoted by the data API, in cents
  underlying_last_price,  \* per run: line 161
  min_strike,             \* per run: line 165
  written_since_read,     \* per run: the account was written after the run's read
  stale_write             \* per run: the run wrote back a configuration read before another write

vars == << account, clock, pc, acct_config, printed, calls, today, min_expiration,
           max_expiration, quoted, underlying_last_price, min_strike,
           written_since_read, stale_write >>

cell4vars == << account, acct_config, printed, written_since_read, stale_write >>
cell7vars == << today, min_expiration, max_expiration, quoted, underlying_last_price, min_strike >>

Init ==
  /\ account \in [max_options_trading_level : Levels]
  /\ clock \in Days
  /\ pc = [r \in Runs |-> "cell3"]
  /\ acct_config = [r \in Runs |-> Unset]
  /\ printed = [r \in Runs |-> << >>]
  /\ calls = [r \in Runs |-> << >>]
  /\ today = [r \in Runs |-> NoDate]
  /\ min_expiration = [r \in Runs |-> NoDate]
  /\ max_expiration = [r \in Runs |-> NoDate]
  /\ quoted = [r \in Runs |-> 0]
  /\ underlying_last_price = [r \in Runs |-> Unset]
  /\ min_strike = [r \in Runs |-> Unset]
  /\ written_since_read = [r \in Runs |-> FALSE]
  /\ stale_write = [r \in Runs |-> FALSE]

\* The order of the statement groups in the notebook.
NextCell_retry(p) ==
  CASE p = "cell3" -> "cell4_get"
    [] p = "cell4_get" -> "cell4_set"
    [] p = "cell4_set" -> "cell4_reget"
    [] p = "cell4_reget" -> "cell4_set"
    [] OTHER -> "done"

NextCell(p) ==
  CASE p = "cell3" -> "cell4_get"
    [] p = "cell4_get" -> "cell4_set"
    [] p = "cell4_set" -> "cell4_reget"
    [] p = "cell4_reget" -> "cell5"
    [] p = "cell5" -> "cell6"
    [] p = "cell6" -> "cell7_today"
    [] p = "cell7_today" -> "cell7_window"
    [] p = "cell7_window" -> "cell7_trade"
    [] p = "cell7_trade" -> "cell7_strike"
    [] OTHER -> "done"

Goto(r) == pc' = [pc EXCEPT ![r] = NextCell(pc[r])]
Call(r, names) == calls' = [calls EXCEPT ![r] = calls[r] \o names]

\* The broker API calls of each cell.
Cell3Calls == << "get_account" >>
Cell5Calls == << "get_all_assets", "get_asset" >>
Cell6Calls == << "get_all_positions" >>
Cell7Calls_submit == << "get_stock_latest_trade", "submit_order" >>
Cell7Calls == << "get_stock_latest_trade" >>

\* acct_config.max_options_trading_level = 1
SetLevel_skip(cfg) == cfg
SetLevel(cfg) == [cfg EXCEPT !.max_options_trading_level = 1]

\* min_expiration = today + timedelta(days=14)
MinExpiration(t) == t + MinDays
\* max_expiration = today + timedelta(days=90)
MaxExpiration_now(t) == clock + MaxDays
MaxExpiration(t) == t + MaxDays

\* acct = trade_client.get_account() and its prints
Cell3(r) ==
  /\ pc[r] = "cell3"
  /\ Goto(r)
  /\ Call(r, Cell3Calls)
  /\ UNCHANGED << clock, cell4vars, cell7vars >>

\* acct_config = trade_client.get_account_configurations(); print
Cell4Get(r) ==
  /\ pc[r] = "cell4_get"
  /\ Goto(r)
  /\ Call(r, << "get_account_configurations" >>)
  /\ acct_config' = [acct_config EXCEPT ![r] = account]
  /\ printed' = [printed EXCEPT ![r] = Append(printed[r], account.max_options_trading_level)]
  /\ written_since_read' = [written_since_read EXCEPT ![r] = FALSE]
  /\ UNCHANGED << account, clock, stale_write, cell7vars >>

\* acct_config.max_options_trading_level = 1
\* trade_client.set_account_configurations(acct_config)
Cell4Set(r) ==
  /\ pc[r] = "cell4_set"
  /\ Goto(r)
  /\ Call(r, << "set_account_configurations" >>)
  /\ acct_config' = [acct_config EXCEPT ![r] = SetLevel(acct_config[r])]
  /\ account' = acct_config'[r]
  /\ written_since_read' = [q \in Runs |-> IF q = r THEN written_since_read[q] ELSE TRUE]
  /\ stale_write' = [stale_write EXCEPT ![r] = written_since_read[r]]
  /\ UNCHANGED << clock, printed, cell7vars >>

\* acct_config = trade_client.get_account_configurations(); print
Cell4Reget(r) ==
  /\ pc[r] = "cell4_reget"
  /\ Goto(r)
  /\ Call(r, << "get_account_configurations" >>)
  /\ acct_config' = [acct_config EXCEPT ![r] = account]
  /\ printed' = [printed EXCEPT ![r] = Append(printed[r], account.max_options_trading_level)]
  /\ written_since_read' = [written_since_read EXCEPT ![r] = FALSE]
  /\ UNCHANGED << account, clock, stale_write, cell7vars >>

\* get_all_assets, get_asset and their prints
Cell5(r) ==
  /\ pc[r] = "cell5"
  /\ Goto(r)
  /\ Call(r, Cell5Calls)
  /\ UNCHANGED << clock, cell4vars, cell7vars >>

\* positions = trade_client.get_all_positions(); print each
Cell6(r) ==
  /\ pc[r] = "cell6"
  /\ Goto(r)
  /\ Call(r, Cell6Calls)
  /\ UNCHANGED << clock, cell4vars, cell7vars >>

\* today = datetime.now().date()
Cell7Today(r) ==
  /\ pc[r] = "cell7_today"
  /\ Goto(r)
  /\ today' = [today EXCEPT ![r] = clock]
  /\ UNCHANGED << clock, calls, cell4vars, min_expiration, max_expiration, quoted,
                  underlying_last_price, min_strike >>

\* min_expiration and max_expiration
Cell7Window(r) ==
  /\ pc[r] = "cell7_window"
  /\ Goto(r)
  /\ min_expiration' = [min_expiration EXCEPT ![r] = MinExpiration(today[r])]
  /\ max_expiration' = [max_expiration EXCEPT ![r] = MaxExpiration(today[r])]
  /\ UNCHANGED << clock, calls, cell4vars, today, quoted, underlying_last_price, min_strike >>

\* underlying_last_price = get_stock_latest_trade(...)[underlying_symbol].price
Cell7Trade(r) ==
  /\ pc[r] = "cell7_trade"
  /\ Goto(r)
  /\ Call(r, Cell7Calls)
  /\ \E c \in Prices :
       /\ quoted' = [quoted EXCEPT ![r] = c]
       /\ underlying_last_price' = [underlying_last_price EXCEPT ![r] = TradePrice(c)]
  /\ UNCHANGED << clock, cell4vars, today, min_expiration, max_expiration, min_strike >>

\* min_strike = str(round(underlying_last_price * 1.02, 2)) and the prints
Cell7Strike(r) ==
  /\ pc[r] = "cell7_strike"
  /\ Goto(r)
  /\ min_strike' = [min_strike EXCEPT ![r] = MinStrike(underlying_last_price[r])]
  /\ UNCHANGED << clock, calls, cell4vars, today, min_expiration, max_expiration, quoted,
                  underlying_last_price >>

\* Midnight passes.
Tick ==
  /\ clock < MaxDay
  /\ clock' = clock + 1
  /\ UNCHANGED << pc, calls, cell4vars, cell7vars >>

Next ==
  \/ Tick
  \/ \E r \in Runs :
       \/ Cell3(r)
       \/ Cell4Get(r)
       \/ Cell4Set(r)
       \/ Cell4Reget(r)
       \/ Cell5(r)
       \/ Cell6(r)
       \/ Cell7Today(r)
       \/ Cell7Window(r)
       \/ Cell7Trade(r)
       \/ Cell7Strike(r)

Spec == Init /\ [][Next]_vars

(***************************************************************************)
(* Properties.                                                             *)
(***************************************************************************)
CallsOf(r) == {calls[r][i] : i \in 1 .. Len(calls[r])}
CallIndex(r, name) == {i \in 1 .. Len(calls[r]) : calls[r][i] = name}

\* The decimal a min_strike string denotes, in cents.
StrikeCents(s) ==
  LET mag == s.whole * 100 + s.frac[1] * 10 + (IF Len(s.frac) > 1 THEN s.frac[2] ELSE 0)
  IN  IF s.neg THEN 0 - mag ELSE mag

\* quoted price * 1.02 as an exact decimal, rounded half-up to cents.
HalfUpCents(c) == (c * 102 + 50) \div 100

WindowDone(r) == pc[r] \in {"cell7_trade", "cell7_strike", "done"}
WriteDone(r) == pc[r] \notin {"cell3", "cell4_get", "cell4_set"}
ReadNone(r) == Len(printed[r]) >= 1 /\ printed[r][1] = None

\* C2: once a run has computed its window, min_expiration is the captured
\* today plus 14 days and max_expiration the same today plus 90 days, however
\* far the clock has moved since the capture; so the window is 76 days wide
\* and min_expiration < max_expiration.
C2_WindowFromOneToday ==
  \A r \in Runs :
    WindowDone(r) =>
      /\ today[r] \in Days
      /\ min_expiration[r] = today[r] + 14
      /\ max_expiration[r] = today[r] + 90
      /\ max_expiration[r] - min_expiration[r] = 76
      /\ min_expiration[r] < max_expiration[r]

\* A run computed its window after midnight had passed since it captured today.
C2_Witness ==
  \E r \in Runs : WindowDone(r) /\ clock # today[r] /\ max_expiration[r] = today[r] + 90

\* C3: for every quoted price > 0, min_strike is price * 1.02 rounded half-up
\* to cents.
C3_HalfUp ==
  \A r \in Runs :
    (pc[r] = "done" /\ quoted[r] > 0) => StrikeCents(min_strike[r]) = HalfUpCents(quoted[r])

C7_NeverRaised ==
  \A r \in Runs :
    (Len(printed[r]) = 2 /\ printed[r][1] # None) => printed[r][2] <= printed[r][1]

\* C8: a quoted price <= 0 produces no min_strike, and a quoted price > 0
\* produces a min_strike > 0.
C8_StrikeOnlyForPositivePrice ==
  \A r \in Runs :
    /\ (pc[r] \in {"cell7_strike", "done"} /\ quoted[r] <= 0) => min_strike[r] = Unset
    /\ (pc[r] = "done" /\ quoted[r] > 0) => StrikeCents(min_strike[r]) > 0

C10_NoStaleWriteBack ==
  \A r \in Runs : ~stale_write[r]
====
